---- MODULE Spec2Model ----
(***************************************************************************)
(* Model of src/models.rs: the redirector message schema.                  *)
(*                                                                         *)
(* The values of the program (NetAddress, NetworkAddressType,              *)
(* InstanceHost, InstanceNet, InstanceDetails) are records, their encode,  *)
(* decode and conversion functions are operators, and the state machine    *)
(* builds a value, encodes it (or receives a payload from a peer) and      *)
(* decodes the stream one statement of the decoders at a time.             *)
(* InstanceRequest is a fixed descriptor that is only ever encoded.        *)
(*                                                                         *)
(* The tag-value stream is a sequence of cells: a tag header (tag, type),  *)
(* a variable-length integer, a string or a raw byte.  A string is a       *)
(* sequence of one-character strings.  An integer on the wire is kept as   *)
(* its two 16-bit halves, hi and num (the value is hi * 2^16 + num), which *)
(* keeps every u32 within the integers TLC computes with.                  *)
(***************************************************************************)
EXTENDS Integers, Sequences, FiniteSets

VARIABLES pc, details, buffer, cursor, host, port, result, failedAt, call

vars == <<pc, details, buffer, cursor, host, port, result, failedAt, call>>

(***************************************************************************)
(* Bounds of the explored inputs.                                          *)
(***************************************************************************)
\* number of dot-separated parts of the generated host texts
MaxParts == 4
\* octets and ports explored besides the corner values: 0 .. MaxSmall
MaxSmall == 1

(***************************************************************************)
(* Program constants.                                                      *)
(***************************************************************************)
U8Max == 255
U16Max == 65535
UNION_UNSET == 127
GROUP_END == 0
ServerCode == 0
ClientCode == 1
PairCode == 2
IpAddressCode == 3
HostnameAddressCode == 4

None == <<>>
Some(x) == <<x>>
IsSome(o) == Len(o) = 1
Unwrap(o) == o[1]

(***************************************************************************)
(* Text: decimal digits, rendering and strict parsing of numbers.          *)
(***************************************************************************)
DigitChars == <<"0", "1", "2", "3", "4", "5", "6", "7", "8", "9">>

IsDigit(c) == \E i \in 1..10 : DigitChars[i] = c

DigitValue(c) == (CHOOSE i \in 1..10 : DigitChars[i] = c) - 1

RECURSIVE ToDecimal(_)
ToDecimal(n) ==
    IF n < 10 THEN <<DigitChars[n + 1]>>
    ELSE ToDecimal(n \div 10) \o <<DigitChars[(n % 10) + 1]>>

RECURSIVE DecimalValue(_)
DecimalValue(s) ==
    IF s = <<>> THEN 0
    ELSE 10 * DecimalValue(SubSeq(s, 1, Len(s) - 1)) + DigitValue(s[Len(s)])

\* the parts of s between its dots ("1..2" has an empty part)
RECURSIVE SplitDots(_)
SplitDots(s) ==
    IF \A i \in 1..Len(s) : s[i] # "."
    THEN <<s>>
    ELSE LET i == CHOOSE j \in 1..Len(s) :
                      s[j] = "." /\ \A k \in 1..(j - 1) : s[k] # "."
         IN  <<SubSeq(s, 1, i - 1)>> \o SplitDots(SubSeq(s, i + 1, Len(s)))

RECURSIVE JoinDots(_)
JoinDots(parts) ==
    IF Len(parts) = 0 THEN <<>>
    ELSE IF Len(parts) = 1 THEN parts[1]
    ELSE parts[1] \o <<".">> \o JoinDots(Tail(parts))

\* one octet of an IPv4 literal: 1 to 3 decimal digits, no leading zero on a
\* number of several digits, value within u8
IsOctetText(p) ==
    /\ Len(p) \in 1..3
    /\ \A i \in 1..Len(p) : IsDigit(p[i])
    /\ (Len(p) > 1 => p[1] # "0")
    /\ DecimalValue(p) <= U8Max

\* value.parse::<Ipv4Addr>(): Some(<<a, b, c, d>>) or None
ParseIpv4(s) ==
    LET parts == SplitDots(s)
    IN  IF Len(parts) = 4 /\ \A i \in 1..4 : IsOctetText(parts[i])
        THEN Some([i \in 1..4 |-> DecimalValue(parts[i])])
        ELSE None

\* Display of an Ipv4Addr: the dotted quad
Ipv4ToString(a) == JoinDots([i \in 1..4 |-> ToDecimal(a[i])])

(***************************************************************************)
(* NetAddress: Display / Debug.                                            *)
(***************************************************************************)
NetAddressDisplay(a) == Ipv4ToString(a)

NetAddressDebug(a) == NetAddressDisplay(a)

NetAddressDefault == <<127, 0, 0, 1>>

(***************************************************************************)
(* NetworkAddressType.                                                     *)
(***************************************************************************)
Nat_(variant, byte) == [variant |-> variant, byte |-> byte]

NetworkAddressTypeValue(t) ==
    CASE t.variant = "Server" -> ServerCode
      [] t.variant = "Client" -> ClientCode
      [] t.variant = "Pair" -> PairCode
      [] t.variant = "IpAddress" -> IpAddressCode
      [] t.variant = "HostnameAddress" -> HostnameAddressCode
      [] OTHER -> t.byte

\* a from_value whose fallback loses the byte
NetworkAddressTypeFromValueLossy(value) ==
    CASE value = ServerCode -> Nat_("Server", 0)
      [] value = ClientCode -> Nat_("Client", 0)
      [] value = PairCode -> Nat_("Pair", 0)
      [] value = IpAddressCode -> Nat_("IpAddress", 0)
      [] value = HostnameAddressCode -> Nat_("HostnameAddress", 0)
      [] OTHER -> Nat_("Unknown", 0)

NetworkAddressTypeFromValue(value) ==
    CASE value = ServerCode -> Nat_("Server", 0)
      [] value = ClientCode -> Nat_("Client", 0)
      [] value = PairCode -> Nat_("Pair", 0)
      [] value = IpAddressCode -> Nat_("IpAddress", 0)
      [] value = HostnameAddressCode -> Nat_("HostnameAddress", 0)
      [] OTHER -> Nat_("Unknown", value)

NetworkAddressTypeIntoU8(t) == NetworkAddressTypeValue(t)

(***************************************************************************)
(* InstanceHost: construction from text and conversion back.               *)
(***************************************************************************)
HostVariant(text) == [variant |-> "Host", text |-> text, addr |-> <<0, 0, 0, 0>>]

AddressVariant(addr) == [variant |-> "Address", text |-> <<>>, addr |-> addr]

\* a construction that parses leniently: leading zeros are accepted
InstanceHostFromLenient(value) ==
    LET parts == SplitDots(value)
        lenient(q) == /\ Len(q) \in 1..3
                      /\ \A i \in 1..Len(q) : IsDigit(q[i])
                      /\ DecimalValue(q) <= U8Max
    IN  IF Len(parts) = 4 /\ \A i \in 1..4 : lenient(parts[i])
        THEN AddressVariant([i \in 1..4 |-> DecimalValue(parts[i])])
        ELSE HostVariant(value)

InstanceHostFrom(value) ==
    LET parsed == ParseIpv4(value)
    IN  IF IsSome(parsed) THEN AddressVariant(Unwrap(parsed))
        ELSE HostVariant(value)

StringFromInstanceHost(value) ==
    IF value.variant = "Address" THEN NetAddressDisplay(value.addr)
    ELSE value.text

InstanceNetFrom(hostText, p) == [host |-> InstanceHostFrom(hostText), port |-> p]

(***************************************************************************)
(* The tag-value codec the encoders and decoders are written against: the  *)
(* writer appends cells, the reader is a buffer and a cursor (1-based).    *)
(* The codec is the blaze_pk crate, which models.rs only calls; it is      *)
(* modelled from the interface the specification gives it: tagged fields   *)
(* read by tag (a field, or the missing-tag error), unions with a one-byte *)
(* key, groups of fields closed by a terminator.  A search for a tag skips *)
(* the fields before it and ends, with the missing-tag error, at the end   *)
(* of the buffer or at the terminator of the enclosing group.              *)
(***************************************************************************)
TagCell(tag, ty) ==
    [kind |-> "tag", tag |-> tag, ty |-> ty, hi |-> 0, num |-> 0, txt |-> <<>>]

IntCell(hi, lo) ==
    [kind |-> "int", tag |-> "", ty |-> "", hi |-> hi, num |-> lo, txt |-> <<>>]

StrCell(s) ==
    [kind |-> "str", tag |-> "", ty |-> "", hi |-> 0, num |-> 0, txt |-> s]

ByteCell(b) ==
    [kind |-> "byte", tag |-> "", ty |-> "", hi |-> 0, num |-> b, txt |-> <<>>]

BoolValue(b) == IF b THEN 1 ELSE 0

WriterTag(w, tag, ty) == w \o <<TagCell(tag, ty)>>

\* value is <<hi, lo>>
WriteU32(w, value) == w \o <<IntCell(value[1], value[2])>>

TagStr(w, tag, value) == WriterTag(w, tag, "String") \o <<StrCell(value)>>

TagU16(w, tag, value) == WriterTag(w, tag, "VarInt") \o <<IntCell(0, value)>>

TagBool(w, tag, value) ==
    WriterTag(w, tag, "VarInt") \o <<IntCell(0, BoolValue(value))>>

TagUnionStart(w, tag, key) == WriterTag(w, tag, "Union") \o <<ByteCell(key)>>

TagUnionUnset(w, tag) == TagUnionStart(w, tag, UNION_UNSET)

TagU8(w, tag, value) == WriterTag(w, tag, "VarInt") \o <<IntCell(0, value)>>

\* value is <<hi, lo>>
TagU32(w, tag, value) == WriteU32(WriterTag(w, tag, "VarInt"), value)

TagGroupEnd(w) == w \o <<ByteCell(GROUP_END)>>

\* errors of the codec (DecodeError)
NoError == [kind |-> "", tag |-> "", ty |-> ""]

MissingTag(tag, ty) == [kind |-> "MissingTag", tag |-> tag, ty |-> ty]

UnexpectedEof == [kind |-> "UnexpectedEof", tag |-> "", ty |-> ""]

InvalidType(tag, ty) == [kind |-> "InvalidType", tag |-> tag, ty |-> ty]

\* the outcome of a read: Ok (ok, the cursor after it, the value read) or Err
ReadOk(cur, num, txt) ==
    [ok |-> TRUE, cursor |-> cur, hi |-> 0, num |-> num, txt |-> txt,
     err |-> NoError]

ReadErr(cur, err) ==
    [ok |-> FALSE, cursor |-> cur, hi |-> 0, num |-> 0, txt |-> <<>>, err |-> err]

AtEnd(buf, cur) == cur > Len(buf)

IsGroupEnd(buf, cur) ==
    ~AtEnd(buf, cur) /\ buf[cur].kind = "byte" /\ buf[cur].num = GROUP_END

\* read_byte: the next raw cell
ReadByte(buf, cur) ==
    IF AtEnd(buf, cur) THEN ReadErr(cur, UnexpectedEof)
    ELSE ReadOk(cur + 1, buf[cur].num, <<>>)

\* the value of a variable-length integer field, in halves
ReadVarInt(buf, cur) ==
    IF AtEnd(buf, cur) THEN ReadErr(cur, UnexpectedEof)
    ELSE [ReadOk(cur + 1, buf[cur].num, <<>>) EXCEPT !.hi = buf[cur].hi]

ReadU32(buf, cur) == ReadVarInt(buf, cur)

ReadString(buf, cur) ==
    IF AtEnd(buf, cur) THEN ReadErr(cur, UnexpectedEof)
    ELSE ReadOk(cur + 1, 0, buf[cur].txt)

\* skipping the value of a field of type ty that starts at cur
RECURSIVE SkipType(_, _, _)
RECURSIVE SkipGroup(_, _)
SkipGroup(buf, cur) ==
    IF AtEnd(buf, cur) THEN ReadOk(cur, 0, <<>>)
    ELSE IF IsGroupEnd(buf, cur) THEN ReadOk(cur + 1, 0, <<>>)
    ELSE IF buf[cur].kind # "tag" THEN ReadErr(cur, UnexpectedEof)
    ELSE LET s == SkipType(buf, cur + 1, buf[cur].ty)
         IN  IF s.ok THEN SkipGroup(buf, s.cursor) ELSE s

SkipType(buf, cur, ty) ==
    IF ty = "Group" THEN SkipGroup(buf, cur)
    ELSE IF AtEnd(buf, cur) THEN ReadErr(cur, UnexpectedEof)
    ELSE IF ty = "Union"
    THEN IF buf[cur].num = UNION_UNSET THEN ReadOk(cur + 1, 0, <<>>)
         ELSE IF AtEnd(buf, cur + 1) \/ buf[cur + 1].kind # "tag"
         THEN ReadErr(cur + 1, UnexpectedEof)
         ELSE SkipType(buf, cur + 2, buf[cur + 1].ty)
    ELSE ReadOk(cur + 1, 0, <<>>)

\* until_tag: moves past the header of the next field tagged tag among the
\* fields that start at cur, skipping the fields before it; the fields end at
\* the end of the buffer or at the terminator of the enclosing group
RECURSIVE UntilTag(_, _, _, _)
UntilTag(buf, cur, tag, ty) ==
    IF AtEnd(buf, cur) \/ buf[cur].kind # "tag"
    THEN ReadErr(cur, MissingTag(tag, ty))
    ELSE IF buf[cur].tag = tag
    THEN IF buf[cur].ty = ty THEN ReadOk(cur + 1, 0, <<>>)
         ELSE ReadErr(cur + 1, InvalidType(ty, buf[cur].ty))
    ELSE LET s == SkipType(buf, cur + 1, buf[cur].ty)
         IN  IF s.ok THEN UntilTag(buf, s.cursor, tag, ty) ELSE s

\* reader.tag::<u16>(tag)
ReaderTagU16(buf, cur, tag) ==
    LET t == UntilTag(buf, cur, tag, "VarInt")
    IN  IF ~t.ok THEN t
        ELSE LET v == ReadVarInt(buf, t.cursor)
             IN  IF v.ok THEN ReadOk(v.cursor, v.num % (U16Max + 1), <<>>) ELSE v

\* reader.tag::<bool>(tag): num is 1 for true
ReaderTagBool(buf, cur, tag) ==
    LET t == UntilTag(buf, cur, tag, "VarInt")
    IN  IF ~t.ok THEN t
        ELSE LET v == ReadVarInt(buf, t.cursor)
             IN  IF v.ok THEN ReadOk(v.cursor, BoolValue(v.hi = 0 /\ v.num = 1), <<>>)
                 ELSE v

\* reader.try_tag::<String>(tag): num is 1 for Some; a missing tag is None with
\* the cursor back where it started
ReaderTryTagString(buf, cur, tag) ==
    LET t == UntilTag(buf, cur, tag, "String")
    IN  IF t.ok
        THEN LET v == ReadString(buf, t.cursor)
             IN  IF v.ok THEN ReadOk(v.cursor, 1, v.txt) ELSE v
        ELSE IF t.err.kind = "MissingTag" THEN ReadOk(cur, 0, <<>>)
        ELSE t

(***************************************************************************)
(* NetAddress: encode / decode.                                            *)
(***************************************************************************)
\* the octets taken in little-endian order
U32FromLeBytes(bytes) ==
    <<bytes[4] * 256 + bytes[3], bytes[2] * 256 + bytes[1]>>

\* u32::from_be_bytes: the u32 as <<hi, lo>>
U32FromBeBytes(bytes) ==
    <<bytes[1] * 256 + bytes[2], bytes[3] * 256 + bytes[4]>>

\* u32::to_be_bytes of the u32 <<hi, lo>>
U32ToBeBytes(value) ==
    <<(value[1] \div 256) % 256, value[1] % 256,
      (value[2] \div 256) % 256, value[2] % 256>>

NetAddressEncode(w, a) ==
    LET bytes == a
        value == U32FromBeBytes(bytes)
    IN  WriteU32(w, value)

NetAddressDecode(buf, cur) ==
    LET value == ReadU32(buf, cur)
    IN  IF ~value.ok
        THEN [ok |-> FALSE, cursor |-> value.cursor, addr |-> <<0, 0, 0, 0>>,
              err |-> value.err]
        ELSE LET bytes == U32ToBeBytes(<<value.hi, value.num>>)
             IN  [ok |-> TRUE, cursor |-> value.cursor, addr |-> bytes,
                  err |-> NoError]

(***************************************************************************)
(* InstanceRequest: encode.  The descriptor is a fixed list of literals.   *)
(***************************************************************************)
TextBsdk ==
    <<"3", ".", "1", "5", ".", "6", ".", "0">>

TextBtim ==
    <<"D", "e", "c", " ", "2", "1", " ", "2", "0", "1", "2", " ", "1", "2",
      ":", "4", "7", ":", "1", "0">>

TextClnt ==
    <<"M", "a", "s", "s", "E", "f", "f", "e", "c", "t", "3", "-", "p", "c">>

TextCsku ==
    <<"1", "3", "4", "8", "4", "5">>

TextCver ==
    <<"0", "5", "4", "2", "7", ".", "1", "2", "4">>

TextDsdk ==
    <<"8", ".", "1", "4", ".", "7", ".", "1">>

TextEnv ==
    <<"p", "r", "o", "d">>

TextName ==
    <<"m", "a", "s", "s", "e", "f", "f", "e", "c", "t", "-", "3", "-", "p",
      "c">>

TextPlat ==
    <<"W", "i", "n", "d", "o", "w", "s">>

TextProf ==
    <<"s", "t", "a", "n", "d", "a", "r", "d", "S", "e", "c", "u", "r", "e",
      "_", "v", "3">>

\* 0x656e4e5a as <<hi, lo>>: 0x656e and 0x4e5a
LocaleCode == <<25966, 20058>>

InstanceRequestEncode(w) ==
    LET w1 == TagStr(w, "BSDK", TextBsdk)
        w2 == TagStr(w1, "BTIM", TextBtim)
        w3 == TagStr(w2, "CLNT", TextClnt)
        w4 == TagU8(w3, "CLTP", 0)
        w5 == TagStr(w4, "CSKU", TextCsku)
        w6 == TagStr(w5, "CVER", TextCver)
        w7 == TagStr(w6, "DSDK", TextDsdk)
        w8 == TagStr(w7, "ENV", TextEnv)
        w9 == TagUnionUnset(w8, "FPID")
        w10 == TagU32(w9, "LOC", LocaleCode)
        w11 == TagStr(w10, "NAME", TextName)
        w12 == TagStr(w11, "PLAT", TextPlat)
    IN  TagStr(w12, "PROF", TextProf)

(***************************************************************************)
(* InstanceHost, InstanceNet, InstanceDetails: encode.                     *)
(***************************************************************************)
\* an encode that writes an address as its text under HOST
InstanceHostEncodeAsText(w, h) == TagStr(w, "HOST", StringFromInstanceHost(h))

InstanceHostEncode(w, h) ==
    IF h.variant = "Host" THEN TagStr(w, "HOST", h.text)
    ELSE NetAddressEncode(WriterTag(w, "IP", "VarInt"), h.addr)

\* an encode that closes the group before the port
InstanceNetEncodeEndFirst(w, net) ==
    LET w1 == InstanceHostEncode(w, net.host)
        w2 == TagGroupEnd(w1)
    IN  TagU16(w2, "PORT", net.port)

InstanceNetEncode(w, net) ==
    LET w1 == InstanceHostEncode(w, net.host)
        w2 == TagU16(w1, "PORT", net.port)
    IN  TagGroupEnd(w2)

\* an encode whose discriminant follows the host variant
InstanceDetailsEncodeByVariant(w, d) ==
    LET key == IF d.net.host.variant = "Address" THEN Nat_("IpAddress", 0)
               ELSE Nat_("HostnameAddress", 0)
        w1 == TagUnionStart(w, "ADDR", NetworkAddressTypeIntoU8(key))
        w2 == InstanceNetEncode(WriterTag(w1, "VALU", "Group"), d.net)
        w3 == TagBool(w2, "SECU", d.secure)
    IN  TagBool(w3, "XDNS", FALSE)

InstanceDetailsEncode(w, d) ==
    LET w1 == TagUnionStart(w, "ADDR", NetworkAddressTypeIntoU8(Nat_("Server", 0)))
        w2 == InstanceNetEncode(WriterTag(w1, "VALU", "Group"), d.net)
        w3 == TagBool(w2, "SECU", d.secure)
    IN  TagBool(w3, "XDNS", FALSE)

(***************************************************************************)
(* InstanceHost, InstanceNet, InstanceDetails: decode.                     *)
(***************************************************************************)
HostOk(cur, h) == [ok |-> TRUE, cursor |-> cur, host |-> Some(h), err |-> NoError]

HostErr(cur, err) == [ok |-> FALSE, cursor |-> cur, host |-> None, err |-> err]

\* a decode that probes IP first
InstanceHostDecodeIpFirst(buf, cur) ==
    LET t == UntilTag(buf, cur, "IP", "VarInt")
    IN  IF t.ok
        THEN LET ip == NetAddressDecode(buf, t.cursor)
             IN  IF ~ip.ok THEN HostErr(ip.cursor, ip.err)
                 ELSE HostOk(ip.cursor, AddressVariant(ip.addr))
        ELSE LET hostTag == ReaderTryTagString(buf, cur, "HOST")
             IN  IF ~hostTag.ok THEN HostErr(hostTag.cursor, hostTag.err)
                 ELSE IF hostTag.num = 1
                 THEN HostOk(hostTag.cursor, HostVariant(hostTag.txt))
                 ELSE HostErr(t.cursor, t.err)

InstanceHostDecode(buf, cur) ==
    LET hostTag == ReaderTryTagString(buf, cur, "HOST")
    IN  IF ~hostTag.ok THEN HostErr(hostTag.cursor, hostTag.err)
        ELSE IF hostTag.num = 1 THEN HostOk(hostTag.cursor, HostVariant(hostTag.txt))
        ELSE LET t == UntilTag(buf, hostTag.cursor, "IP", "VarInt")
             IN  IF ~t.ok THEN HostErr(t.cursor, t.err)
                 ELSE LET ip == NetAddressDecode(buf, t.cursor)
                      IN  IF ~ip.ok THEN HostErr(ip.cursor, ip.err)
                          ELSE HostOk(ip.cursor, AddressVariant(ip.addr))

NetOk(cur, net) == [ok |-> TRUE, cursor |-> cur, net |-> Some(net), err |-> NoError]

NetErr(cur, err) == [ok |-> FALSE, cursor |-> cur, net |-> None, err |-> err]

InstanceNetDecode(buf, cur) ==
    LET h == InstanceHostDecode(buf, cur)
    IN  IF ~h.ok THEN NetErr(h.cursor, h.err)
        ELSE LET p == ReaderTagU16(buf, h.cursor, "PORT")
             IN  IF ~p.ok THEN NetErr(p.cursor, p.err)
                 ELSE LET b == ReadByte(buf, p.cursor)
                      IN  IF ~b.ok THEN NetErr(b.cursor, b.err)
                          ELSE NetOk(b.cursor, [host |-> Unwrap(h.host), port |-> p.num])

\* reader.tag::<Union<InstanceNet>>("ADDR") up to the payload of the union:
\* num is 1 for Union::Set (the cursor is at the payload), 0 for Union::Unset
UnionStart(buf, cur) ==
    LET t == UntilTag(buf, cur, "ADDR", "Union")
    IN  IF ~t.ok THEN t
        ELSE LET key == ReadByte(buf, t.cursor)
             IN  IF ~key.ok THEN key
                 ELSE IF key.num = UNION_UNSET THEN ReadOk(key.cursor, 0, <<>>)
                 ELSE IF AtEnd(buf, key.cursor) \/ buf[key.cursor].kind # "tag"
                 THEN ReadErr(key.cursor, UnexpectedEof)
                 ELSE IF buf[key.cursor].ty # "Group"
                 THEN ReadErr(key.cursor + 1, InvalidType("Group", buf[key.cursor].ty))
                 ELSE ReadOk(key.cursor + 1, 1, <<>>)

DetailsOk(cur, d) == [ok |-> TRUE, cursor |-> cur, value |-> Some(d), err |-> NoError]

DetailsErr(cur, err) == [ok |-> FALSE, cursor |-> cur, value |-> None, err |-> err]

\* a decode that reads XDNS back and requires it
InstanceDetailsDecodeXdns(buf, cur) ==
    LET u == UnionStart(buf, cur)
    IN  IF ~u.ok THEN DetailsErr(u.cursor, u.err)
        ELSE IF u.num = 0 THEN DetailsErr(u.cursor, MissingTag("ADDR", "Union"))
        ELSE LET net == InstanceNetDecode(buf, u.cursor)
             IN  IF ~net.ok THEN DetailsErr(net.cursor, net.err)
                 ELSE LET secure == ReaderTagBool(buf, net.cursor, "SECU")
                      IN  IF ~secure.ok THEN DetailsErr(secure.cursor, secure.err)
                          ELSE LET xdns == ReaderTagBool(buf, secure.cursor, "XDNS")
                               IN  IF ~xdns.ok THEN DetailsErr(xdns.cursor, xdns.err)
                                   ELSE DetailsOk(xdns.cursor,
                                                  [net |-> Unwrap(net.net),
                                                   secure |-> secure.num = 1])

InstanceDetailsDecode(buf, cur) ==
    LET u == UnionStart(buf, cur)
    IN  IF ~u.ok THEN DetailsErr(u.cursor, u.err)
        ELSE IF u.num = 0 THEN DetailsErr(u.cursor, MissingTag("ADDR", "Union"))
        ELSE LET net == InstanceNetDecode(buf, u.cursor)
             IN  IF ~net.ok THEN DetailsErr(net.cursor, net.err)
                 ELSE LET secure == ReaderTagBool(buf, net.cursor, "SECU")
                      IN  IF ~secure.ok THEN DetailsErr(secure.cursor, secure.err)
                          ELSE DetailsOk(secure.cursor,
                                         [net |-> Unwrap(net.net),
                                          secure |-> secure.num = 1])

(***************************************************************************)
(* Inputs.                                                                 *)
(***************************************************************************)
RelayText ==
    <<"r", "e", "l", "a", "y", ".", "e", "x", "a", "m", "p", "l", "e", ".",
      "n", "e", "t">>

TenText == <<"1", "0", ".", "0", ".", "0", ".", "5">>

PartSamples ==
    {<<>>, <<"0">>, <<"1", "0">>, <<"0", "5">>, <<"2", "5", "5">>,
     <<"2", "5", "6">>, <<"x">>}

\* the texts a host is constructed from: up to MaxParts parts joined by dots
HostTexts ==
    {RelayText, TenText}
        \cup {JoinDots(p) : p \in UNION {[1..k -> PartSamples] : k \in 1..MaxParts}}

OctetSamples == (0..MaxSmall) \cup {10, 127, U8Max}

AddrSamples == [1..4 -> OctetSamples]

PortSamples == (0..MaxSmall) \cup {80, 42127, U16Max}

HalfSamples == (0..MaxSmall) \cup {U8Max, U8Max + 1, 32767, 32768, U16Max}

\* 32-bit values, as <<hi, lo>>
U32Samples ==
    {U32FromBeBytes(a) : a \in AddrSamples} \cup (HalfSamples \X HalfSamples)

Bytes == 0..U8Max

HostSamples ==
    {HostVariant(t) : t \in {RelayText, TenText, <<>>, <<"x">>}}
        \cup {AddressVariant(a) :
                a \in {<<10, 0, 0, 5>>, <<0, 0, 0, 0>>, NetAddressDefault,
                       <<U8Max, U8Max, U8Max, U8Max>>}}

DetailsSamples ==
    [net : [host : HostSamples, port : PortSamples], secure : BOOLEAN]

\* the payloads a peer may send: the fields of an encoded InstanceDetails,
\* each present or absent, the union set (under either key) or unset
Flag(w, tag, f) ==
    IF f = "absent" THEN w ELSE TagBool(w, tag, f = "true")

PeerHostFields(w, shape, text, addr) ==
    CASE shape = "host" -> TagStr(w, "HOST", text)
      [] shape = "ip" -> NetAddressEncode(WriterTag(w, "IP", "VarInt"), addr)
      [] shape = "both" ->
            NetAddressEncode(WriterTag(TagStr(w, "HOST", text), "IP", "VarInt"), addr)
      [] shape = "rev" ->
            TagStr(NetAddressEncode(WriterTag(w, "IP", "VarInt"), addr), "HOST", text)
      [] OTHER -> w

PeerPayload(union, key, shape, withPort, p, secu, xdns) ==
    LET u == CASE union = "unset" -> TagUnionStart(<<>>, "ADDR", UNION_UNSET)
               [] union = "absent" -> <<>>
               [] OTHER ->
                    LET w1 == WriterTag(TagUnionStart(<<>>, "ADDR", key), "VALU", "Group")
                        w2 == PeerHostFields(w1, shape, RelayText, <<10, 0, 0, 5>>)
                        w3 == IF withPort THEN TagU16(w2, "PORT", p) ELSE w2
                    IN  TagGroupEnd(w3)
    IN  Flag(Flag(u, "SECU", secu), "XDNS", xdns)

Flags == {"absent", "true", "false"}

PeerPayloads ==
    {PeerPayload(u, k, s, wp, 42127, secu, xdns) :
        u \in {"set", "unset", "absent"}, k \in {ServerCode, HostnameAddressCode},
        s \in {"host", "ip", "both", "rev", "neither"}, wp \in BOOLEAN,
        secu \in Flags, xdns \in Flags}

\* an encoded InstanceDetails cut short
Truncated ==
    UNION {{SubSeq(InstanceDetailsEncode(<<>>, d), 1, n) : n \in 0..11} :
             d \in {x \in DetailsSamples : x.net.port = 42127}}

Payloads == PeerPayloads \cup Truncated

(***************************************************************************)
(* The state machine.                                                      *)
(***************************************************************************)
NoResult == [done |-> FALSE, ok |-> FALSE, value |-> None, err |-> NoError]

Ok(d) == [done |-> TRUE, ok |-> TRUE, value |-> Some(d), err |-> NoError]

Err(e) == [done |-> TRUE, ok |-> FALSE, value |-> None, err |-> e]

NoCall ==
    [fn |-> "", text |-> <<>>, num |-> 0, u32 |-> <<0, 0>>, addr |-> <<0, 0, 0, 0>>, host |-> None,
     nat |-> Nat_("", 0), wire |-> <<>>, outText |-> <<>>, outNum |-> 0,
     outAddr |-> <<0, 0, 0, 0>>, outOk |-> FALSE]

Init ==
    /\ pc = "idle"
    /\ details = None
    /\ buffer = <<>>
    /\ cursor = 1
    /\ host = None
    /\ port = None
    /\ result = NoResult
    /\ failedAt = ""
    /\ call = NoCall

\* InstanceHost::from(String) and String::from(InstanceHost)
HostFromString(s) ==
    /\ pc = "idle"
    /\ LET h == InstanceHostFrom(s)
       IN  call' = [NoCall EXCEPT !.fn = "InstanceHost::from", !.text = s,
                                  !.host = Some(h),
                                  !.outText = StringFromInstanceHost(h)]
    /\ pc' = "called"
    /\ UNCHANGED <<details, buffer, cursor, host, port, result, failedAt>>

\* NetAddress::encode, then NetAddress::decode of what it wrote
NetAddressRoundTrip(a) ==
    /\ pc = "idle"
    /\ LET w == NetAddressEncode(<<>>, a)
           r == NetAddressDecode(w, 1)
       IN  call' = [NoCall EXCEPT !.fn = "NetAddress::encode", !.addr = a,
                                  !.wire = w, !.outOk = r.ok, !.outAddr = r.addr]
    /\ pc' = "called"
    /\ UNCHANGED <<details, buffer, cursor, host, port, result, failedAt>>

\* NetAddress::decode of a 32-bit value, then NetAddress::encode of the address
NetAddressFromWire(v) ==
    /\ pc = "idle"
    /\ LET r == NetAddressDecode(WriteU32(<<>>, v), 1)
       IN  call' = [NoCall EXCEPT !.fn = "NetAddress::decode", !.u32 = v,
                                  !.outOk = r.ok, !.outAddr = r.addr,
                                  !.wire = NetAddressEncode(<<>>, r.addr)]
    /\ pc' = "called"
    /\ UNCHANGED <<details, buffer, cursor, host, port, result, failedAt>>

\* NetworkAddressType::from_value, then NetworkAddressType::value
AddressTypeFromValue(b) ==
    /\ pc = "idle"
    /\ LET t == NetworkAddressTypeFromValue(b)
       IN  call' = [NoCall EXCEPT !.fn = "NetworkAddressType::from_value",
                                  !.num = b, !.nat = t,
                                  !.outNum = NetworkAddressTypeValue(t)]
    /\ pc' = "called"
    /\ UNCHANGED <<details, buffer, cursor, host, port, result, failedAt>>

\* an InstanceDetails built field by field
Build(d) ==
    /\ pc = "idle"
    /\ details' = Some(d)
    /\ pc' = "built"
    /\ UNCHANGED <<buffer, cursor, host, port, result, failedAt, call>>

\* an InstanceDetails whose net is InstanceNet::from((host, port))
BuildFromPair(text, p, secure) ==
    /\ pc = "idle"
    /\ details' = Some([net |-> InstanceNetFrom(text, p), secure |-> secure])
    /\ call' = [NoCall EXCEPT !.fn = "InstanceNet::from", !.text = text, !.num = p]
    /\ pc' = "built"
    /\ UNCHANGED <<buffer, cursor, host, port, result, failedAt>>

\* InstanceDetails::encode into a fresh writer
Encode ==
    /\ pc = "built"
    /\ buffer' = InstanceDetailsEncode(<<>>, Unwrap(details))
    /\ cursor' = 1
    /\ pc' = "addr"
    /\ UNCHANGED <<details, host, port, result, failedAt, call>>

\* InstanceRequest::encode into a fresh writer; nothing decodes a request
EncodeRequest ==
    /\ pc = "idle"
    /\ buffer' = InstanceRequestEncode(<<>>)
    /\ cursor' = 1
    /\ pc' = "request"
    /\ UNCHANGED <<details, host, port, result, failedAt, call>>

\* a payload of a peer arrives in place of one encoded here
Receive(payload) ==
    /\ pc = "idle"
    /\ buffer' = payload
    /\ cursor' = 1
    /\ pc' = "addr"
    /\ UNCHANGED <<details, host, port, result, failedAt, call>>

\* a decoder returns Err(e) from the statement pc is at
Fail(e, cur) ==
    /\ result' = Err(e)
    /\ failedAt' = pc
    /\ cursor' = cur
    /\ pc' = "err"
    /\ UNCHANGED <<details, buffer, host, port, call>>

\* a decode that defaults the address of an unset union
DecodeAddrDefaulted ==
    /\ pc = "addr"
    /\ LET u == UnionStart(buffer, cursor)
       IN  IF ~u.ok THEN Fail(u.err, u.cursor)
           ELSE IF u.num = 0
           THEN /\ host' = Some(AddressVariant(NetAddressDefault))
                /\ port' = Some(0)
                /\ cursor' = u.cursor
                /\ pc' = "secu"
                /\ UNCHANGED <<details, buffer, result, failedAt, call>>
           ELSE /\ cursor' = u.cursor
                /\ pc' = "host"
                /\ UNCHANGED <<details, buffer, host, port, result, failedAt, call>>

\* InstanceDetails::decode: reader.tag::<Union<InstanceNet>>("ADDR") up to
\* the payload, and the Union::Unset arm
DecodeAddr ==
    /\ pc = "addr"
    /\ LET u == UnionStart(buffer, cursor)
       IN  IF ~u.ok THEN Fail(u.err, u.cursor)
           ELSE IF u.num = 0 THEN Fail(MissingTag("ADDR", "Union"), u.cursor)
           ELSE /\ cursor' = u.cursor
                /\ pc' = "host"
                /\ UNCHANGED <<details, buffer, host, port, result, failedAt, call>>

\* InstanceNet::decode: InstanceHost::decode(reader)?
DecodeHost ==
    /\ pc = "host"
    /\ LET h == InstanceHostDecode(buffer, cursor)
       IN  IF ~h.ok THEN Fail(h.err, h.cursor)
           ELSE /\ host' = h.host
                /\ cursor' = h.cursor
                /\ pc' = "port"
                /\ UNCHANGED <<details, buffer, port, result, failedAt, call>>

\* a decode that carries on with port 0 when PORT cannot be read
DecodePortLenient ==
    /\ pc = "port"
    /\ LET p == ReaderTagU16(buffer, cursor, "PORT")
       IN  /\ port' = Some(IF p.ok THEN p.num ELSE 0)
           /\ cursor' = IF p.ok THEN p.cursor ELSE cursor
           /\ pc' = "term"
           /\ UNCHANGED <<details, buffer, host, result, failedAt, call>>

\* InstanceNet::decode: reader.tag("PORT")?
DecodePort ==
    /\ pc = "port"
    /\ LET p == ReaderTagU16(buffer, cursor, "PORT")
       IN  IF ~p.ok THEN Fail(p.err, p.cursor)
           ELSE /\ port' = Some(p.num)
                /\ cursor' = p.cursor
                /\ pc' = "term"
                /\ UNCHANGED <<details, buffer, host, result, failedAt, call>>

\* InstanceNet::decode: reader.read_byte()?
DecodeTerminator ==
    /\ pc = "term"
    /\ LET b == ReadByte(buffer, cursor)
       IN  IF ~b.ok THEN Fail(b.err, b.cursor)
           ELSE /\ cursor' = b.cursor
                /\ pc' = "secu"
                /\ UNCHANGED <<details, buffer, host, port, result, failedAt, call>>

\* InstanceDetails::decode: reader.tag("SECU")? and the Ok result
DecodeSecure ==
    /\ pc = "secu"
    /\ LET secure == ReaderTagBool(buffer, cursor, "SECU")
       IN  IF ~secure.ok THEN Fail(secure.err, secure.cursor)
           ELSE /\ result' = Ok([net |-> [host |-> Unwrap(host), port |-> Unwrap(port)],
                                 secure |-> secure.num = 1])
                /\ cursor' = secure.cursor
                /\ pc' = "ok"
                /\ UNCHANGED <<details, buffer, host, port, failedAt, call>>

Next ==
    \/ \E s \in HostTexts : HostFromString(s)
    \/ \E a \in AddrSamples : NetAddressRoundTrip(a)
    \/ \E v \in U32Samples : NetAddressFromWire(v)
    \/ \E b \in Bytes : AddressTypeFromValue(b)
    \/ \E d \in DetailsSamples : Build(d)
    \/ \E t \in {RelayText, TenText}, p \in PortSamples, s \in BOOLEAN :
          BuildFromPair(t, p, s)
    \/ Encode
    \/ EncodeRequest
    \/ \E payload \in Payloads : Receive(payload)
    \/ DecodeAddr
    \/ DecodeHost
    \/ DecodePort
    \/ DecodeTerminator
    \/ DecodeSecure

Spec == Init /\ [][Next]_vars

\* the statements of the decoders, run one at a time, return what the
\* decoder returns when run as a whole
StepsAgree ==
    result.done =>
        LET whole == InstanceDetailsDecode(buffer, 1)
        IN  /\ result.ok = whole.ok
            /\ result.value = whole.value
            /\ result.err = whole.err
            /\ cursor = whole.cursor

(***************************************************************************)
(* Properties.                                                             *)
(***************************************************************************)
Decoded == pc \in {"ok", "err"}

EncodedHere == IsSome(details) /\ pc \notin {"idle", "built"}

\* C1: round trip. Decoding the stream InstanceDetails::encode produced for a
\* value succeeds and yields that value: the same host variant, the same
\* address bytes or host text, the same port and the same secure flag.
RoundTrip ==
    (EncodedHere /\ Decoded) =>
        /\ pc = "ok"
        /\ result.ok
        /\ result.value = details

RoundTripWitness ==
    /\ pc = "ok"
    /\ call.fn = "InstanceNet::from"
    /\ call.text = TenText
    /\ Unwrap(details).secure
    /\ Unwrap(result.value).net.host = AddressVariant(<<10, 0, 0, 5>>)
    /\ Unwrap(result.value).net.port = 42127
    /\ Unwrap(result.value).secure

\* the ADDR union of the payload is in the unset state
AddrUnset(buf) ==
    \E i \in 1..(Len(buf) - 1) :
        /\ buf[i] = TagCell("ADDR", "Union")
        /\ buf[i + 1] = ByteCell(UNION_UNSET)
        /\ \A j \in 1..(i - 1) : buf[j].tag # "ADDR"

\* C2: decoding a payload whose ADDR union is unset fails with the
\* missing-field error carrying tag ADDR and expected type Union; it never
\* goes on to the fields of the address and never returns an InstanceDetails.
UnsetUnionFails ==
    (AddrUnset(buffer) /\ pc # "idle") =>
        /\ pc \in {"addr", "err"}
        /\ ~result.ok
        /\ result.value = None
        /\ host = None
        /\ port = None
        /\ Decoded => /\ failedAt = "addr"
                      /\ result.err = [kind |-> "MissingTag", tag |-> "ADDR",
                                       ty |-> "Union"]

UnsetUnionWitness ==
    /\ pc = "err"
    /\ AddrUnset(buffer)
    /\ result.err.kind = "MissingTag"
    /\ \E i \in 1..Len(buffer) : buffer[i].tag = "SECU"

KnownVariants == <<"Server", "Client", "Pair", "IpAddress", "HostnameAddress">>

\* C3: for every byte b, from_value(b) is defined and value(from_value(b)) = b;
\* bytes 0 to 4 map to Server, Client, Pair, IpAddress, HostnameAddress and
\* every other byte maps to the fallback variant carrying that byte.
AddressTypeTotal ==
    call.fn = "NetworkAddressType::from_value" =>
        /\ call.outNum = call.num
        /\ IF call.num <= 4
           THEN call.nat.variant = KnownVariants[call.num + 1]
           ELSE call.nat.variant = "Unknown" /\ call.nat.byte = call.num

AddressTypeWitness ==
    /\ call.fn = "NetworkAddressType::from_value"
    /\ call.num = 127
    /\ call.nat.variant = "Unknown"
    /\ call.outNum = 127

\* C4: a host constructed from a text that strict IPv4 parsing accepts is the
\* Address variant of the parsed address, and its text is the canonical dotted
\* quad of that address; a host constructed from any other text is the Host
\* variant and its text is exactly the text given.
HostFromText ==
    call.fn = "InstanceHost::from" =>
        LET parsed == ParseIpv4(call.text)
            h == Unwrap(call.host)
        IN  IF IsSome(parsed)
            THEN /\ h.variant = "Address"
                 /\ h.addr = Unwrap(parsed)
                 /\ call.outText = Ipv4ToString(Unwrap(parsed))
            ELSE /\ h.variant = "Host"
                 /\ h.text = call.text
                 /\ call.outText = call.text

HostFromTextWitness ==
    /\ call.fn = "InstanceHost::from"
    /\ call.text = TenText
    /\ Unwrap(call.host) = AddressVariant(<<10, 0, 0, 5>>)
    /\ call.outText = TenText

\* C5: InstanceDetails::encode emits, in this order, the ADDR union with the
\* Server discriminant 0 whatever the host variant, the InstanceNet under
\* VALU, SECU equal to the secure flag and XDNS false, and nothing else.
EncodeLayout ==
    (EncodedHere /\ pc = "addr") =>
        LET d == Unwrap(details)
        IN  buffer =
                <<TagCell("ADDR", "Union"), ByteCell(0), TagCell("VALU", "Group")>>
                    \o InstanceNetEncode(<<>>, d.net)
                    \o <<TagCell("SECU", "VarInt"), IntCell(0, BoolValue(d.secure)),
                         TagCell("XDNS", "VarInt"), IntCell(0, 0)>>

EncodeLayoutWitness ==
    /\ EncodedHere
    /\ pc = "addr"
    /\ Unwrap(details).net.host.variant = "Address"
    /\ Unwrap(details).secure
    /\ buffer[2] = ByteCell(0)
    /\ buffer[4] = TagCell("IP", "VarInt")
    /\ Len(buffer) = 12

\* C6: NetAddress::encode writes a.b.c.d as the one 32-bit value
\* a*2^24 + b*2^16 + c*2^8 + d (here: halves a*2^8 + b and c*2^8 + d), and
\* NetAddress::decode maps every 32-bit value to the address of its big-endian
\* bytes without failing, so decode(encode(x)) = x and encode(decode(v)) = v.
NetAddressWire ==
    /\ call.fn = "NetAddress::encode" =>
          /\ call.wire = <<IntCell(call.addr[1] * 256 + call.addr[2],
                                   call.addr[3] * 256 + call.addr[4])>>
          /\ call.outOk
          /\ call.outAddr = call.addr
    /\ call.fn = "NetAddress::decode" =>
          /\ call.outOk
          /\ \A i \in 1..4 : call.outAddr[i] \in 0..255
          /\ call.outAddr[1] * 256 + call.outAddr[2] = call.u32[1]
          /\ call.outAddr[3] * 256 + call.outAddr[4] = call.u32[2]
          /\ call.wire = <<IntCell(call.u32[1], call.u32[2])>>

NetAddressWireWitness ==
    /\ call.fn = "NetAddress::decode"
    /\ call.u32 = <<65535, 32768>>
    /\ call.outAddr = <<255, 255, 128, 0>>

\* what the cells of an InstanceDetails encoded here hold: the group is
\* cells 4 to 8 (the host field, the PORT field, the terminator)
FramingState ==
    EncodedHere =>
        /\ Len(buffer) = 12
        /\ buffer[4].kind = "tag" /\ buffer[4].tag \in {"HOST", "IP"}
        /\ buffer[6] = TagCell("PORT", "VarInt")
        /\ buffer[7] = IntCell(0, Unwrap(details).net.port)
        /\ buffer[8] = ByteCell(GROUP_END)
        /\ \A i \in 4..7 : ~IsGroupEnd(buffer, i)
        /\ buffer[9] = TagCell("SECU", "VarInt")
        /\ (pc = "host" => cursor = 4)
        /\ (pc = "port" => cursor = 6)
        /\ (pc = "term" => cursor = 8)
        /\ (pc = "secu" => cursor = 9)
        /\ (pc = "ok" => cursor = 11)

FramingSteps ==
    /\ pc = "host" => pc' \in {"port", "err"}
    /\ pc = "port" => pc' \in {"term", "err"}
    /\ pc = "term" => pc' \in {"secu", "err"}
    /\ pc = "secu" => pc' \in {"ok", "err"}
    /\ (pc = "port" /\ pc' = "term") =>
          /\ buffer[cursor' - 2] = TagCell("PORT", "VarInt")
          /\ port' = Some(buffer[cursor' - 1].num)
    /\ (pc = "term" /\ pc' = "secu") =>
          /\ cursor' = cursor + 1
          /\ host' = host
          /\ port' = port
    /\ (pc = "term" /\ pc' = "err") => AtEnd(buffer, cursor)

\* C7: InstanceNet::encode writes the host field, then PORT, then exactly one
\* group terminator as the last cell of the group; InstanceNet::decode decodes
\* the host, then reads PORT, then consumes exactly one cell after the port and
\* not before, so that after decoding an encoded InstanceNet the reader stands
\* right after the terminator, at the SECU field.
GroupFraming == []FramingState /\ [][FramingSteps]_vars

GroupFramingWitness ==
    /\ EncodedHere
    /\ pc = "secu"
    /\ cursor = 9
    /\ IsGroupEnd(buffer, 8)
    /\ Unwrap(host).variant = "Address"
    /\ port = Some(42127)

IsXdnsTag(c) == c.kind = "tag" /\ c.tag = "XDNS"

\* the payload without its XDNS field
RECURSIVE WithoutXdns(_)
WithoutXdns(buf) ==
    IF buf = <<>> THEN <<>>
    ELSE IF IsXdnsTag(Head(buf)) THEN WithoutXdns(SubSeq(buf, 3, Len(buf)))
    ELSE <<Head(buf)>> \o WithoutXdns(Tail(buf))

\* the payloads that differ from buf in the value or presence of XDNS only:
\* XDNS absent, or true or false after the last field or before SECU
XdnsVariants(buf) ==
    LET b == WithoutXdns(buf)
    IN  {b}
        \cup {TagBool(b, "XDNS", v) : v \in BOOLEAN}
        \cup {TagBool(SubSeq(b, 1, i - 1), "XDNS", v) \o SubSeq(b, i, Len(b)) :
                i \in {j \in 1..Len(b) : b[j] = TagCell("SECU", "VarInt")},
                v \in BOOLEAN}

\* C8: XDNS is never observable after decode: the payloads that differ only in
\* the value or presence of the XDNS field decode to equal results, and a
\* decoded InstanceDetails carries net and secure only.
XdnsBlind ==
    (pc \in {"addr", "host", "port", "term", "secu", "ok", "err"}
        /\ (EncodedHere \/ buffer \in PeerPayloads)) =>
        LET here == InstanceDetailsDecode(buffer, 1)
        IN  /\ \A x \in XdnsVariants(buffer) :
                  LET there == InstanceDetailsDecode(x, 1)
                  IN  /\ there.ok = here.ok
                      /\ there.value = here.value
                      /\ there.err = here.err
            /\ Decoded => /\ result.ok = here.ok
                          /\ result.value = here.value
                          /\ result.err = here.err
            /\ result.ok => DOMAIN Unwrap(result.value) = {"net", "secure"}

XdnsBlindWitness ==
    /\ pc = "ok"
    /\ details = None
    /\ \E i \in 1..(Len(buffer) - 1) :
          buffer[i] = TagCell("XDNS", "VarInt") /\ buffer[i + 1] = IntCell(0, 1)
    /\ ~Unwrap(result.value).secure

\* the first cell at or after cur that ends the group (or the end of buffer)
GroupEndAt(buf, cur) ==
    CHOOSE e \in cur..(Len(buf) + 1) :
        /\ e = Len(buf) + 1 \/ IsGroupEnd(buf, e)
        /\ \A i \in cur..(e - 1) : ~IsGroupEnd(buf, i)

FieldsAt(buf, cur, tag, ty) ==
    {i \in cur..(GroupEndAt(buf, cur) - 1) : buf[i] = TagCell(tag, ty)}

Least(S) == CHOOSE i \in S : \A j \in S : i <= j

CellBytes(c) ==
    <<c.hi \div 256, c.hi % 256, c.num \div 256, c.num % 256>>

HostState ==
    (EncodedHere /\ IsSome(host)) =>
        Unwrap(host).variant = Unwrap(details).net.host.variant

HostStep ==
    (pc = "host" /\ GroupEndAt(buffer, cursor) <= Len(buffer)) =>
        LET hs == FieldsAt(buffer, cursor, "HOST", "String")
            ips == FieldsAt(buffer, cursor, "IP", "VarInt")
        IN  /\ hs # {} =>
                  /\ pc' = "port"
                  /\ host' = Some(HostVariant(buffer[Least(hs) + 1].txt))
            /\ (hs = {} /\ ips # {}) =>
                  /\ pc' = "port"
                  /\ host' = Some(AddressVariant(CellBytes(buffer[Least(ips) + 1])))
            /\ (hs = {} /\ ips = {}) =>
                  /\ pc' = "err"
                  /\ host' = None
                  /\ result'.err.kind = "MissingTag"
                  /\ result'.err.tag = "IP"

\* C9: InstanceHost::decode probes HOST first and its presence alone decides
\* (for the fields of a group that has its terminator):
\* with a HOST text field among the host's fields the result is the Host
\* variant with that text, and no IP field is required; only without HOST is IP
\* required, and the result is then the Address variant; with neither, decode
\* fails. A value encoded as Address is never decoded as Host, nor the reverse.
HostProbe == []HostState /\ [][HostStep]_vars

HostProbeWitness ==
    /\ pc = "port"
    /\ details = None
    /\ Unwrap(host) = HostVariant(RelayText)
    /\ FieldsAt(buffer, 4, "IP", "VarInt") = {4}
    /\ FieldsAt(buffer, 4, "HOST", "String") = {6}

Steps == {"addr", "host", "port", "term", "secu"}

NextStep(p) ==
    CASE p = "addr" -> "host"
      [] p = "host" -> "port"
      [] p = "port" -> "term"
      [] p = "term" -> "secu"
      [] OTHER -> "ok"

\* what the codec answers to the statement pc is at
StepOutcome ==
    CASE pc = "addr" -> UnionStart(buffer, cursor)
      [] pc = "host" -> InstanceHostDecode(buffer, cursor)
      [] pc = "port" -> ReaderTagU16(buffer, cursor, "PORT")
      [] pc = "term" -> ReadByte(buffer, cursor)
      [] OTHER -> ReaderTagBool(buffer, cursor, "SECU")

NoPartialState ==
    /\ result.ok => /\ pc = "ok"
                    /\ IsSome(result.value)
                    /\ failedAt = ""
                    /\ IsSome(host)
                    /\ IsSome(port)
    /\ pc = "ok" => result.ok
    /\ pc = "err" => /\ result.done
                     /\ ~result.ok
                     /\ result.value = None
                     /\ failedAt \in Steps
    /\ pc \in Steps => result = NoResult

NoPartialStep ==
    /\ pc \notin {"ok", "err"}
    /\ pc \in Steps =>
          LET o == StepOutcome
          IN  IF ~o.ok
              THEN /\ pc' = "err"
                   /\ failedAt' = pc
                   /\ result'.err = o.err
                   /\ result'.value = None
              ELSE IF pc = "addr" /\ o.num = 0
              THEN /\ pc' = "err"
                   /\ failedAt' = pc
                   /\ result'.value = None
              ELSE /\ pc' = NextStep(pc)
                   /\ failedAt' = ""

\* C10: no partial result. If a step of InstanceDetails::decode fails (the
\* ADDR union, the host, PORT, the terminator, SECU), decoding stops at that
\* step, the error of the codec is returned unchanged and no InstanceDetails
\* is produced; an InstanceDetails is returned only when every step succeeded.
NoPartial == []NoPartialState /\ [][NoPartialStep]_vars

NoPartialWitness ==
    /\ pc = "err"
    /\ failedAt = "term"
    /\ result.err.kind = "UnexpectedEof"
    /\ IsSome(host)
    /\ IsSome(port)
    /\ result.value = None

====
